---- MODULE Spec2Model ----
(***************************************************************************)
(* BedLiftBee (src/workers/bedliftbee.cpp): the two-relay bed-lift         *)
(* controller with its ultrasonic sensor, its shared reed limit switch,    *)
(* the auto-nudge off the limit and the position calibration.              *)
(*                                                                         *)
(* In Spec and CalSpec one action is one whole handler: a pass of loop(),  *)
(* an MQTT command, a web request.  millis() is the environment's clock    *)
(* `now`; it advances between handlers and is read as one value inside a   *)
(* handler.  ConfigSpec follows the two durations through the config form, *)
(* flash and setup(); RaceSpec runs the loop task, the web server's task   *)
(* and the MQTT client's task side by side, a block of statements a step.  *)
(***************************************************************************)
EXTENDS Integers, FiniteSets, Sequences, TLC

VARIABLES
    state,                \* struct DeviceState (the controller's fields)
    relayUpPin,           \* level written to RELAY_UP_PIN
    relayDownPin,         \* level written to RELAY_DOWN_PIN
    ultrasonicFailCount,  \* consecutive failed ultrasonic reads
    lastUltrasonicRead,   \* millis() of the last ultrasonic read
    published,            \* the fields of the last publishState() payload
    config,               \* struct DeviceConfig (the two durations)
    now,                  \* millis()
    stored,               \* the two durations in Preferences (flash)
    task,                 \* where each task stands inside its handler, and
                          \* the handler's local variables
    last                  \* the handler that ran last, its inputs, and the
                          \* actuator state it found (history, not program state)

vars == <<state, relayUpPin, relayDownPin, ultrasonicFailCount,
          lastUltrasonicRead, published, config, now, stored, task, last>>

---------------------------------------------------------------------------
\* Program constants

RELAY_ON == "LOW"
RELAY_OFF == "HIGH"

DEFAULT_LIFT_DURATION == 3000
DEFAULT_NUDGE_DURATION == 300
MAX_SEND_TO_LIMIT_DURATION == 30000
MIN_SAFE_DISTANCE_CM == 10
ULTRASONIC_READ_INTERVAL == 100
ULTRASONIC_FAIL_THRESHOLD == 5

\* The floors below which a submitted duration is replaced by its default
LiftDurationFloor == 500
NudgeDurationFloor == 50

\* Length of the WiFiManager parameters lift_duration and nudge_duration
ParamLength == 8

\* unsigned long is 32 bits wide: 2^32 = UMaxTenth * 10 + UMaxUnit
UMaxTenth == 429496729
UMaxUnit == 6

\* A number one digit longer than a WiFiManager parameter holds
LongNumber == 10 ^ ParamLength + LiftDurationFloor

\* setup() waits delay(500) before anything reads millis()
BootDelay == 500

\* Distances are kept in units of 1/CmScale cm, so that the echo conversion
\* duration * 0.0343 / 2 = duration * SoundHalfSpeed / CmScale is exact.
CmScale == 100000
SoundHalfSpeed == 1715

---------------------------------------------------------------------------
\* Bounds of the model

\* millis() is sampled: a few FineStep-spaced instants after boot, and the same
\* instants one send-to-limit watchdog period later.
MaxFine == 2

FineStep == DEFAULT_NUDGE_DURATION \div 2
CoarseOffsets == {0, MAX_SEND_TO_LIMIT_DURATION}

Instants ==
    { BootDelay + f * FineStep + c : f \in 0..MaxFine, c \in CoarseOffsets }

\* The calibration specification reads up to MaxEcho different distances,
\* EchoStep microseconds of echo (about 5.1 cm) apart, and takes up to
\* MaxReads sensor reads after the one in setup().
MaxEcho == 4
MaxReads == 7
EchoStep == 300

EchoWidths == {0} \cup { e * EchoStep : e \in 1..MaxEcho }

\* The configuration specification submits for each duration the numbers
\* within MaxOffset of its floor, zero, and a number of nine digits, each also
\* negated and followed by letters, and two texts without digits.
MaxOffset == 1

\* Echo pulse widths in microseconds the ultrasonic sensor may return:
\* 0 is pulseIn's timeout, 300 us is about 5 cm, 3000 us about 51 cm.
PulseDurations == {0, 300, 3000}

\* Levels of the reed input pin
PinLevels == {"LOW", "HIGH"}

Directions == {"raise", "lower"}

---------------------------------------------------------------------------
\* The mutable program state as one record, so that handlers compose.

Machine ==
    [ st |-> state, up |-> relayUpPin, down |-> relayDownPin,
      fail |-> ultrasonicFailCount, lastRead |-> lastUltrasonicRead,
      pub |-> published ]

millis == now

\* struct DeviceState after its member initialisers
InitialDeviceState ==
    [ isLifting |-> FALSE, sendToLimit |-> FALSE, liftDirection |-> "",
      liftStartTime |-> 0, relayUp |-> FALSE, relayDown |-> FALSE,
      distanceCm |-> 0, ultrasonicOk |-> FALSE, atLimit |-> FALSE,
      lastStopReason |-> "", limitDirection |-> "", isNudging |-> FALSE,
      nudgeStartTime |-> 0, calibratedTopCm |-> 0, calibratedBottomCm |-> 0,
      positionPercent |-> -1 ]

\* The controller fields of the JSON document publishState() sends
Snapshot(s) ==
    [ isLifting |-> s.isLifting, sendToLimit |-> s.sendToLimit,
      direction |-> s.liftDirection, relayUp |-> s.relayUp,
      relayDown |-> s.relayDown, atLimit |-> s.atLimit,
      lastStopReason |-> s.lastStopReason,
      limitDirection |-> s.limitDirection, isNudging |-> s.isNudging ]

publishState(m) == [m EXCEPT !.pub = Snapshot(m.st)]

---------------------------------------------------------------------------
\* Position calibrator

\* Faults of calculatePositionPercent: the scale is measured from the top
\* endpoint, so that the top reads 0; and the result is not clamped.
calculatePositionPercent_fromTop(s) ==
    IF s.calibratedTopCm = 0 \/ s.calibratedBottomCm = 0 THEN -1
    ELSE IF ~s.ultrasonicOk THEN -1
    ELSE LET range == s.calibratedBottomCm - s.calibratedTopCm
             fromTop == s.distanceCm - s.calibratedTopCm
         IN IF range <= 0 THEN -1
            ELSE LET percent ==
                         IF fromTop >= 0 THEN (fromTop * 100) \div range
                         ELSE -(((-fromTop) * 100) \div range)
                 IN IF percent < 0 THEN 0
                    ELSE IF percent > 100 THEN 100
                    ELSE percent

calculatePositionPercent_noClamp(s) ==
    IF s.calibratedTopCm = 0 \/ s.calibratedBottomCm = 0 THEN -1
    ELSE IF ~s.ultrasonicOk THEN -1
    ELSE LET range == s.calibratedBottomCm - s.calibratedTopCm
             fromBottom == s.calibratedBottomCm - s.distanceCm
         IN IF range <= 0 THEN -1
            ELSE IF fromBottom >= 0 THEN (fromBottom * 100) \div range
            ELSE -(((-fromBottom) * 100) \div range)

calculatePositionPercent(s) ==
    IF s.calibratedTopCm = 0 \/ s.calibratedBottomCm = 0 THEN -1
    ELSE IF ~s.ultrasonicOk THEN -1
    ELSE LET range == s.calibratedBottomCm - s.calibratedTopCm
             fromBottom == s.calibratedBottomCm - s.distanceCm
         IN IF range <= 0 THEN -1
            ELSE LET percent ==
                         \* (int) truncates toward zero
                         IF fromBottom >= 0 THEN (fromBottom * 100) \div range
                         ELSE -(((-fromBottom) * 100) \div range)
                 IN IF percent < 0 THEN 0
                    ELSE IF percent > 100 THEN 100
                    ELSE percent

calibratePosition(m, position) ==
    IF ~m.st.ultrasonicOk THEN m
    ELSE LET s1 == IF position = "top"
                       THEN [m.st EXCEPT !.calibratedTopCm = m.st.distanceCm]
                   ELSE IF position = "bottom"
                       THEN [m.st EXCEPT !.calibratedBottomCm = m.st.distanceCm]
                   ELSE m.st
             s2 == [s1 EXCEPT !.positionPercent = calculatePositionPercent(s1)]
         IN publishState([m EXCEPT !.st = s2])

---------------------------------------------------------------------------
\* Lift control

\* Faults of isSafeToMove: the limit blocks only while its direction is
\* unknown; and the nudge check is missing.
isSafeToMove_unknownOnly(m, direction) ==
    IF m.st.isNudging THEN FALSE
    ELSE IF m.st.atLimit /\ m.st.limitDirection = "" THEN FALSE
    ELSE IF direction = "lower" /\ m.st.ultrasonicOk
            /\ m.st.distanceCm > 0
            /\ m.st.distanceCm < MIN_SAFE_DISTANCE_CM * CmScale
        THEN FALSE
    ELSE TRUE

isSafeToMove_duringNudge(m, direction) ==
    IF m.st.atLimit
       /\ (m.st.limitDirection = "" \/ m.st.limitDirection = direction)
        THEN FALSE
    ELSE IF direction = "lower" /\ m.st.ultrasonicOk
            /\ m.st.distanceCm > 0
            /\ m.st.distanceCm < MIN_SAFE_DISTANCE_CM * CmScale
        THEN FALSE
    ELSE TRUE

\* Fault of isSafeToMove: the obstacle check is applied to raising too.
isSafeToMove_obstacleBothWays(m, direction) ==
    IF m.st.isNudging THEN FALSE
    ELSE IF m.st.atLimit
            /\ (m.st.limitDirection = "" \/ m.st.limitDirection = direction)
        THEN FALSE
    ELSE IF m.st.ultrasonicOk
            /\ m.st.distanceCm > 0
            /\ m.st.distanceCm < MIN_SAFE_DISTANCE_CM * CmScale
        THEN FALSE
    ELSE TRUE

\* Fault of isSafeToMove: a limit of unknown direction blocks nothing.
isSafeToMove_knownOnly(m, direction) ==
    IF m.st.isNudging THEN FALSE
    ELSE IF m.st.atLimit /\ m.st.limitDirection = direction THEN FALSE
    ELSE IF direction = "lower" /\ m.st.ultrasonicOk
            /\ m.st.distanceCm > 0
            /\ m.st.distanceCm < MIN_SAFE_DISTANCE_CM * CmScale
        THEN FALSE
    ELSE TRUE

isSafeToMove(m, direction) ==
    IF m.st.isNudging THEN FALSE
    ELSE IF m.st.atLimit
            /\ (m.st.limitDirection = "" \/ m.st.limitDirection = direction)
        THEN FALSE
    ELSE IF direction = "lower" /\ m.st.ultrasonicOk
            /\ m.st.distanceCm > 0
            /\ m.st.distanceCm < MIN_SAFE_DISTANCE_CM * CmScale
        THEN FALSE
    ELSE TRUE

\* Faults of stopLift: the relay pins are not released; and a running nudge
\* is left alone.
stopLift_keepsRelays(m, reason) ==
    LET s0 == m.st
        s1 == IF s0.isLifting THEN [s0 EXCEPT !.lastStopReason = reason] ELSE s0
        s2 == IF s1.isNudging
                  THEN [s1 EXCEPT !.isNudging = FALSE, !.nudgeStartTime = 0]
                  ELSE s1
        s3 == [s2 EXCEPT !.isLifting = FALSE, !.sendToLimit = FALSE,
                         !.liftDirection = "", !.liftStartTime = 0,
                         !.relayUp = FALSE, !.relayDown = FALSE]
    IN publishState([m EXCEPT !.st = s3])

stopLift_keepsNudge(m, reason) ==
    IF m.st.isNudging /\ ~m.st.isLifting THEN publishState(m)
    ELSE LET s0 == m.st
             s1 == IF s0.isLifting THEN [s0 EXCEPT !.lastStopReason = reason] ELSE s0
             s3 == [s1 EXCEPT !.isLifting = FALSE, !.sendToLimit = FALSE,
                              !.liftDirection = "", !.liftStartTime = 0,
                              !.relayUp = FALSE, !.relayDown = FALSE]
         IN publishState([m EXCEPT !.up = RELAY_OFF, !.down = RELAY_OFF,
                                   !.st = s3])

stopLift(m, reason) ==
    LET s0 == m.st
        s1 == IF s0.isLifting THEN [s0 EXCEPT !.lastStopReason = reason] ELSE s0
        s2 == IF s1.isNudging
                  THEN [s1 EXCEPT !.isNudging = FALSE, !.nudgeStartTime = 0]
                  ELSE s1
        s3 == [s2 EXCEPT !.isLifting = FALSE, !.sendToLimit = FALSE,
                         !.liftDirection = "", !.liftStartTime = 0,
                         !.relayUp = FALSE, !.relayDown = FALSE]
    IN publishState([m EXCEPT !.up = RELAY_OFF, !.down = RELAY_OFF, !.st = s3])

\* Fault of startLift: the running operation is not stopped first and only the
\* requested relay is written.
startLift_noInterlock(m, direction, toLimit) ==
    IF ~isSafeToMove(m, direction) THEN m
    ELSE LET s == [m.st EXCEPT !.liftDirection = direction,
                               !.liftStartTime = millis,
                               !.isLifting = TRUE,
                               !.sendToLimit = toLimit,
                               !.lastStopReason = ""]
             m2 == IF direction = "raise"
                       THEN [m EXCEPT !.up = RELAY_ON,
                                      !.st = [s EXCEPT !.relayUp = TRUE]]
                   ELSE IF direction = "lower"
                       THEN [m EXCEPT !.down = RELAY_ON,
                                      !.st = [s EXCEPT !.relayDown = TRUE]]
                   ELSE [m EXCEPT !.st = s]
         IN publishState(m2)

\* Fault of startLift: a drive already in progress is redirected in place,
\* keeping the timer it was started with.
startLift_keepsTimer(m, direction, toLimit) ==
    IF ~isSafeToMove(m, direction) THEN m
    ELSE LET m1 == IF m.st.isLifting
                       THEN [m EXCEPT !.up = RELAY_OFF, !.down = RELAY_OFF]
                   ELSE stopLift(m, "starting_new")
             s == [m1.st EXCEPT !.liftDirection = direction,
                                !.liftStartTime =
                                    IF m.st.isLifting THEN m.st.liftStartTime
                                    ELSE millis,
                                !.isLifting = TRUE,
                                !.sendToLimit = toLimit,
                                !.lastStopReason = ""]
             m2 == IF direction = "raise"
                       THEN [m1 EXCEPT !.up = RELAY_ON, !.down = RELAY_OFF,
                                       !.st = [s EXCEPT !.relayUp = TRUE,
                                                        !.relayDown = FALSE]]
                   ELSE IF direction = "lower"
                       THEN [m1 EXCEPT !.up = RELAY_OFF, !.down = RELAY_ON,
                                       !.st = [s EXCEPT !.relayUp = FALSE,
                                                        !.relayDown = TRUE]]
                   ELSE [m1 EXCEPT !.st = s]
         IN publishState(m2)

\* Fault of startLift: a refused start still stops what is running.
startLift_stopsFirst(m, direction, toLimit) ==
    LET m1 == stopLift(m, "starting_new")
    IN IF ~isSafeToMove(m, direction) THEN m1
       ELSE LET s == [m1.st EXCEPT !.liftDirection = direction,
                                   !.liftStartTime = millis,
                                   !.isLifting = TRUE,
                                   !.sendToLimit = toLimit,
                                   !.lastStopReason = ""]
                m2 == IF direction = "raise"
                          THEN [m1 EXCEPT !.up = RELAY_ON, !.down = RELAY_OFF,
                                          !.st = [s EXCEPT !.relayUp = TRUE,
                                                           !.relayDown = FALSE]]
                      ELSE IF direction = "lower"
                          THEN [m1 EXCEPT !.up = RELAY_OFF, !.down = RELAY_ON,
                                          !.st = [s EXCEPT !.relayUp = FALSE,
                                                           !.relayDown = TRUE]]
                      ELSE [m1 EXCEPT !.st = s]
            IN publishState(m2)

\* Fault of startLift: a start command that repeats the drive in progress is
\* ignored.
startLift_ignoresReissue(m, direction, toLimit) ==
    IF ~isSafeToMove(m, direction) THEN m
    ELSE IF m.st.isLifting /\ m.st.liftDirection = direction
            /\ m.st.sendToLimit = toLimit
        THEN m
    ELSE LET m1 == stopLift(m, "starting_new")
             s == [m1.st EXCEPT !.liftDirection = direction,
                                !.liftStartTime = millis,
                                !.isLifting = TRUE,
                                !.sendToLimit = toLimit,
                                !.lastStopReason = ""]
             m2 == IF direction = "raise"
                       THEN [m1 EXCEPT !.up = RELAY_ON, !.down = RELAY_OFF,
                                       !.st = [s EXCEPT !.relayUp = TRUE,
                                                        !.relayDown = FALSE]]
                   ELSE IF direction = "lower"
                       THEN [m1 EXCEPT !.up = RELAY_OFF, !.down = RELAY_ON,
                                       !.st = [s EXCEPT !.relayUp = FALSE,
                                                        !.relayDown = TRUE]]
                   ELSE [m1 EXCEPT !.st = s]
         IN publishState(m2)

\* Fault of startLift: the drive is started unconditionally, on top of
\* whatever is running.
startLift_unchecked(m, direction, toLimit) ==
    LET s == [m.st EXCEPT !.liftDirection = direction,
                          !.liftStartTime = millis,
                          !.isLifting = TRUE,
                          !.sendToLimit = toLimit,
                          !.lastStopReason = ""]
        m2 == IF direction = "raise"
                  THEN [m EXCEPT !.up = RELAY_ON, !.down = RELAY_OFF,
                                 !.st = [s EXCEPT !.relayUp = TRUE,
                                                  !.relayDown = FALSE]]
              ELSE IF direction = "lower"
                  THEN [m EXCEPT !.up = RELAY_OFF, !.down = RELAY_ON,
                                 !.st = [s EXCEPT !.relayUp = FALSE,
                                                  !.relayDown = TRUE]]
              ELSE [m EXCEPT !.st = s]
    IN publishState(m2)

startLift(m, direction, toLimit) ==
    IF ~isSafeToMove(m, direction) THEN m
    ELSE LET m1 == stopLift(m, "starting_new")
             s == [m1.st EXCEPT !.liftDirection = direction,
                                !.liftStartTime = millis,
                                !.isLifting = TRUE,
                                !.sendToLimit = toLimit,
                                !.lastStopReason = ""]
             m2 == IF direction = "raise"
                       THEN [m1 EXCEPT !.up = RELAY_ON, !.down = RELAY_OFF,
                                       !.st = [s EXCEPT !.relayUp = TRUE,
                                                        !.relayDown = FALSE]]
                   ELSE IF direction = "lower"
                       THEN [m1 EXCEPT !.up = RELAY_OFF, !.down = RELAY_ON,
                                       !.st = [s EXCEPT !.relayUp = FALSE,
                                                        !.relayDown = TRUE]]
                   ELSE [m1 EXCEPT !.st = s]
         IN publishState(m2)

\* Faults of updateLift: no watchdog on a send-to-limit drive; and no obstacle
\* check while lowering.
updateLift_noWatchdog(m) ==
    IF ~m.st.isLifting THEN m
    ELSE LET elapsed == millis - m.st.liftStartTime
         IN IF ~m.st.sendToLimit /\ elapsed >= config.liftDuration
                THEN stopLift(m, "timer")
            ELSE IF m.st.atLimit
                    /\ (m.st.limitDirection = ""
                        \/ m.st.limitDirection = m.st.liftDirection)
                THEN stopLift(m, "limit")
            ELSE IF m.st.liftDirection = "lower" /\ m.st.ultrasonicOk
                    /\ m.st.distanceCm > 0
                    /\ m.st.distanceCm < MIN_SAFE_DISTANCE_CM * CmScale
                THEN stopLift(m, "obstacle")
            ELSE m

updateLift_noObstacle(m) ==
    IF ~m.st.isLifting THEN m
    ELSE LET elapsed == millis - m.st.liftStartTime
         IN IF m.st.sendToLimit /\ elapsed >= MAX_SEND_TO_LIMIT_DURATION
                THEN stopLift(m, "safety_timeout")
            ELSE IF ~m.st.sendToLimit /\ elapsed >= config.liftDuration
                THEN stopLift(m, "timer")
            ELSE IF m.st.atLimit
                    /\ (m.st.limitDirection = ""
                        \/ m.st.limitDirection = m.st.liftDirection)
                THEN stopLift(m, "limit")
            ELSE m

\* Fault of updateLift: the lift-duration timer also ends send-to-limit drives.
updateLift_timerAlways(m) ==
    IF ~m.st.isLifting THEN m
    ELSE LET elapsed == millis - m.st.liftStartTime
         IN IF m.st.sendToLimit /\ elapsed >= MAX_SEND_TO_LIMIT_DURATION
                THEN stopLift(m, "safety_timeout")
            ELSE IF elapsed >= config.liftDuration
                THEN stopLift(m, "timer")
            ELSE IF m.st.atLimit
                    /\ (m.st.limitDirection = ""
                        \/ m.st.limitDirection = m.st.liftDirection)
                THEN stopLift(m, "limit")
            ELSE IF m.st.liftDirection = "lower" /\ m.st.ultrasonicOk
                    /\ m.st.distanceCm > 0
                    /\ m.st.distanceCm < MIN_SAFE_DISTANCE_CM * CmScale
                THEN stopLift(m, "obstacle")
            ELSE m

updateLift(m) ==
    IF ~m.st.isLifting THEN m
    ELSE LET elapsed == millis - m.st.liftStartTime
         IN IF m.st.sendToLimit /\ elapsed >= MAX_SEND_TO_LIMIT_DURATION
                THEN stopLift(m, "safety_timeout")
            ELSE IF ~m.st.sendToLimit /\ elapsed >= config.liftDuration
                THEN stopLift(m, "timer")
            ELSE IF m.st.atLimit
                    /\ (m.st.limitDirection = ""
                        \/ m.st.limitDirection = m.st.liftDirection)
                THEN stopLift(m, "limit")
            ELSE IF m.st.liftDirection = "lower" /\ m.st.ultrasonicOk
                    /\ m.st.distanceCm > 0
                    /\ m.st.distanceCm < MIN_SAFE_DISTANCE_CM * CmScale
                THEN stopLift(m, "obstacle")
            ELSE m

---------------------------------------------------------------------------
\* Nudge (auto-reverse off the limit)

startNudge(m, awayFrom) ==
    LET s == [m.st EXCEPT !.isNudging = TRUE, !.nudgeStartTime = millis]
    IN IF awayFrom = "lower"
           THEN [m EXCEPT !.up = RELAY_ON, !.down = RELAY_OFF, !.st = s]
           ELSE [m EXCEPT !.up = RELAY_OFF, !.down = RELAY_ON, !.st = s]

\* Fault of updateNudge: the nudge outlives its duration by one comparison.
updateNudge_late(m) ==
    IF ~m.st.isNudging THEN m
    ELSE IF millis - m.st.nudgeStartTime > config.nudgeDuration
        THEN publishState(
                 [m EXCEPT !.up = RELAY_OFF, !.down = RELAY_OFF,
                           !.st = [m.st EXCEPT !.isNudging = FALSE,
                                               !.nudgeStartTime = 0]])
    ELSE m

\* Fault of updateNudge: the nudge is ended without releasing the relays.
updateNudge_keepsRelays(m) ==
    IF ~m.st.isNudging THEN m
    ELSE IF millis - m.st.nudgeStartTime >= config.nudgeDuration
        THEN publishState(
                 [m EXCEPT !.st = [m.st EXCEPT !.isNudging = FALSE,
                                               !.nudgeStartTime = 0]])
    ELSE m

updateNudge(m) ==
    IF ~m.st.isNudging THEN m
    ELSE IF millis - m.st.nudgeStartTime >= config.nudgeDuration
        THEN publishState(
                 [m EXCEPT !.up = RELAY_OFF, !.down = RELAY_OFF,
                           !.st = [m.st EXCEPT !.isNudging = FALSE,
                                               !.nudgeStartTime = 0]])
    ELSE m

---------------------------------------------------------------------------
\* Safety sensors

\* pulse is what pulseIn() returns: the echo's width in us, 0 on timeout
readUltrasonic(pulse) ==
    IF pulse = 0 THEN -1 ELSE pulse * SoundHalfSpeed

\* Faults of readReedSwitch: a limit hit stops the drive without the nudge;
\* and a cleared switch leaves the directional lock set.
readReedSwitch_noNudge(m, level) ==
    LET limitTriggered == (level = "HIGH")
    IN IF limitTriggered = m.st.atLimit THEN m
       ELSE LET m1 == [m EXCEPT !.st.atLimit = limitTriggered]
            IN IF limitTriggered
                   THEN IF m1.st.isLifting
                            THEN stopLift([m1 EXCEPT !.st.limitDirection =
                                                         m1.st.liftDirection],
                                          "limit")
                        ELSE IF m1.st.isNudging
                            THEN stopLift([m1 EXCEPT !.st.limitDirection = ""],
                                          "limit_during_nudge")
                        ELSE [m1 EXCEPT !.st.limitDirection = ""]
                   ELSE [m1 EXCEPT !.st.limitDirection = ""]

readReedSwitch_keepsLock(m, level) ==
    LET limitTriggered == (level = "HIGH")
    IN IF limitTriggered = m.st.atLimit THEN m
       ELSE LET m1 == [m EXCEPT !.st.atLimit = limitTriggered]
            IN IF limitTriggered
                   THEN IF m1.st.isLifting
                            THEN LET hitDirection == m1.st.liftDirection
                                     m2 == [m1 EXCEPT !.st.limitDirection = hitDirection]
                                 IN startNudge(stopLift(m2, "limit"), hitDirection)
                        ELSE IF m1.st.isNudging
                            THEN stopLift([m1 EXCEPT !.st.limitDirection = ""],
                                          "limit_during_nudge")
                        ELSE [m1 EXCEPT !.st.limitDirection = ""]
                   ELSE m1

readReedSwitch(m, level) ==
    LET limitTriggered == (level = "HIGH")
    IN IF limitTriggered = m.st.atLimit THEN m
       ELSE LET m1 == [m EXCEPT !.st.atLimit = limitTriggered]
            IN IF limitTriggered
                   THEN IF m1.st.isLifting
                            THEN LET hitDirection == m1.st.liftDirection
                                     m2 == [m1 EXCEPT !.st.limitDirection = hitDirection]
                                 IN startNudge(stopLift(m2, "limit"), hitDirection)
                        ELSE IF m1.st.isNudging
                            THEN stopLift([m1 EXCEPT !.st.limitDirection = ""],
                                          "limit_during_nudge")
                        ELSE [m1 EXCEPT !.st.limitDirection = ""]
                   ELSE [m1 EXCEPT !.st.limitDirection = ""]

\* Fault of updateSensors: the sensor is declared unhealthy one failure late.
updateSensors_lateThreshold(m, level, pulse) ==
    LET m1 ==
            IF millis - m.lastRead >= ULTRASONIC_READ_INTERVAL
                THEN LET distance == readUltrasonic(pulse)
                         fail == IF distance > 0 THEN 0 ELSE m.fail + 1
                         s1 == IF distance > 0
                                   THEN [m.st EXCEPT !.distanceCm = distance,
                                                     !.ultrasonicOk = TRUE]
                               ELSE IF fail > ULTRASONIC_FAIL_THRESHOLD
                                   THEN [m.st EXCEPT !.ultrasonicOk = FALSE]
                               ELSE m.st
                         s2 == [s1 EXCEPT !.positionPercent =
                                              calculatePositionPercent(s1)]
                     IN [m EXCEPT !.lastRead = millis, !.fail = fail, !.st = s2]
                ELSE m
    IN readReedSwitch(m1, level)

updateSensors(m, level, pulse) ==
    LET m1 ==
            IF millis - m.lastRead >= ULTRASONIC_READ_INTERVAL
                THEN LET distance == readUltrasonic(pulse)
                         fail == IF distance > 0 THEN 0 ELSE m.fail + 1
                         s1 == IF distance > 0
                                   THEN [m.st EXCEPT !.distanceCm = distance,
                                                     !.ultrasonicOk = TRUE]
                               ELSE IF fail >= ULTRASONIC_FAIL_THRESHOLD
                                   THEN [m.st EXCEPT !.ultrasonicOk = FALSE]
                               ELSE m.st
                         s2 == [s1 EXCEPT !.positionPercent =
                                              calculatePositionPercent(s1)]
                     IN [m EXCEPT !.lastRead = millis, !.fail = fail, !.st = s2]
                ELSE m
    IN readReedSwitch(m1, level)

---------------------------------------------------------------------------
\* Main loop and command handlers

loop(m, level, pulse) ==
    updateNudge(updateLift(updateSensors(m, level, pulse)))

CommandValues ==
    {"raise", "lower", "stop", "sendToTop", "sendToBottom",
     "calibrate_top", "calibrate_bottom"}

onMqttMessage(m, value) ==
    IF value = "raise" THEN startLift(m, "raise", FALSE)
    ELSE IF value = "lower" THEN startLift(m, "lower", FALSE)
    ELSE IF value = "stop" THEN stopLift(m, "manual")
    ELSE IF value = "sendToTop" THEN startLift(m, "raise", TRUE)
    ELSE IF value = "sendToBottom" THEN startLift(m, "lower", TRUE)
    ELSE IF value = "calibrate_top" THEN calibratePosition(m, "top")
    ELSE IF value = "calibrate_bottom" THEN calibratePosition(m, "bottom")
    ELSE m

LiftParams == {"raise", "lower", "stop", "sendToTop", "sendToBottom"}

webLift(m, dir) ==
    IF dir = "raise" THEN startLift(m, "raise", FALSE)
    ELSE IF dir = "lower" THEN startLift(m, "lower", FALSE)
    ELSE IF dir = "stop" THEN stopLift(m, "manual")
    ELSE IF dir = "sendToTop" THEN startLift(m, "raise", TRUE)
    ELSE IF dir = "sendToBottom" THEN startLift(m, "lower", TRUE)
    ELSE m

webCalibrate(m, pos) ==
    IF pos = "top" \/ pos = "bottom" THEN calibratePosition(m, pos) ELSE m

---------------------------------------------------------------------------
\* startLift and readReedSwitch statement by statement, for the tasks that
\* run them: loop() runs in the Arduino loop task, the /lift handler in the
\* task of the asynchronous web server, onMqttMessage in the task of the MQTT
\* client, and nothing in the program keeps one from running between two
\* statements of another.

\* startLift: state.liftDirection = direction ... state.lastStopReason = ""
startLiftFields(m, direction, toLimit) ==
    [m EXCEPT !.st = [m.st EXCEPT !.liftDirection = direction,
                                  !.liftStartTime = millis,
                                  !.isLifting = TRUE,
                                  !.sendToLimit = toLimit,
                                  !.lastStopReason = ""]]

\* startLift: digitalWrite(RELAY_UP_PIN, ...)
startLiftRelayUp(m, direction) ==
    IF direction = "raise" THEN [m EXCEPT !.up = RELAY_ON]
    ELSE IF direction = "lower" THEN [m EXCEPT !.up = RELAY_OFF]
    ELSE m

\* startLift: digitalWrite(RELAY_DOWN_PIN, ...)
startLiftRelayDown(m, direction) ==
    IF direction = "raise" THEN [m EXCEPT !.down = RELAY_OFF]
    ELSE IF direction = "lower" THEN [m EXCEPT !.down = RELAY_ON]
    ELSE m

\* startLift: state.relayUp, state.relayDown, publishState()
startLiftFlags(m, direction) ==
    publishState(
        IF direction = "raise"
            THEN [m EXCEPT !.st = [m.st EXCEPT !.relayUp = TRUE,
                                               !.relayDown = FALSE]]
        ELSE IF direction = "lower"
            THEN [m EXCEPT !.st = [m.st EXCEPT !.relayUp = FALSE,
                                               !.relayDown = TRUE]]
        ELSE m)

\* updateSensors up to its call of readReedSwitch: with the switch at the
\* level it had, readReedSwitch changes nothing
sensorsBeforeReedSwitch(m, pulse) ==
    updateSensors(m, IF m.st.atLimit THEN "HIGH" ELSE "LOW", pulse)

\* readReedSwitch sees the limit hit during a drive
limitHitWhileLifting(m, level) ==
    level = "HIGH" /\ ~m.st.atLimit /\ m.st.isLifting

\* readReedSwitch, limit hit during a drive, up to and including
\* stopLift("limit")
readReedSwitchStop(m) ==
    stopLift([m EXCEPT !.st = [m.st EXCEPT !.atLimit = TRUE,
                                           !.limitDirection = m.st.liftDirection]],
             "limit")

\* startNudge: state.isNudging = true; state.nudgeStartTime = millis()
startNudgeFields(m) ==
    [m EXCEPT !.st = [m.st EXCEPT !.isNudging = TRUE,
                                  !.nudgeStartTime = millis]]

\* startNudge: digitalWrite(RELAY_UP_PIN, ...)
startNudgeRelayUp(m, awayFrom) ==
    IF awayFrom = "lower" THEN [m EXCEPT !.up = RELAY_ON]
    ELSE [m EXCEPT !.up = RELAY_OFF]

\* startNudge: digitalWrite(RELAY_DOWN_PIN, ...)
startNudgeRelayDown(m, awayFrom) ==
    IF awayFrom = "lower" THEN [m EXCEPT !.down = RELAY_OFF]
    ELSE [m EXCEPT !.down = RELAY_ON]

---------------------------------------------------------------------------
\* Configuration of the two durations.  An unsigned long is held as its
\* 32-bit pattern read as a signed integer (a negative number n stands for
\* 2^32 + n), a text as a sequence of one-character strings.

DigitChars == <<"0", "1", "2", "3", "4", "5", "6", "7", "8", "9">>

IsDigit(c) == \E d \in 1..10 : DigitChars[d] = c

DigitValue(c) == (CHOOSE d \in 1..10 : DigitChars[d] = c) - 1

\* a < b as unsigned long
ULess(a, b) == IF (a < 0) = (b < 0) THEN a < b ELSE b < 0

RECURSIVE Decimal(_)
\* the decimal digits of n >= 0
Decimal(n) ==
    IF n < 10 THEN <<DigitChars[n + 1]>>
    ELSE Append(Decimal(n \div 10), DigitChars[(n % 10) + 1])

\* String(unsigned long): the decimal digits of the unsigned value of u
UDecimal(u) ==
    IF u >= 0 THEN Decimal(u)
    ELSE LET tenth == (-u) \div 10
             unit == (-u) % 10
         IN IF unit <= UMaxUnit
                THEN Append(Decimal(UMaxTenth - tenth),
                            DigitChars[UMaxUnit - unit + 1])
            ELSE Append(Decimal(UMaxTenth - tenth - 1),
                        DigitChars[UMaxUnit + 10 - unit + 1])

RECURSIVE LeadingNumber(_, _)
\* the number written by the digits text starts with, after acc
LeadingNumber(text, acc) ==
    IF text = <<>> \/ ~IsDigit(Head(text)) THEN acc
    ELSE LeadingNumber(Tail(text), acc * 10 + DigitValue(Head(text)))

\* atoi(): an optional sign, then digits up to the first other character;
\* 0 when there is no digit
atoi(text) ==
    IF text = <<>> THEN 0
    ELSE IF Head(text) = "-" THEN -LeadingNumber(Tail(text), 0)
    ELSE IF Head(text) = "+" THEN LeadingNumber(Tail(text), 0)
    ELSE LeadingNumber(text, 0)

\* String::toInt() is atol()
toInt(text) == atoi(text)

\* WiFiManagerParameter keeps the first ParamLength characters of its value
ParamValue(text) ==
    IF Len(text) <= ParamLength THEN text ELSE SubSeq(text, 1, ParamLength)

\* Fault of clampLiftDuration: the lift duration is held to the nudge's floor.
clampLiftDuration_nudgeFloor(cfg) ==
    IF ULess(cfg.liftDuration, NudgeDurationFloor)
        THEN [cfg EXCEPT !.liftDuration = DEFAULT_LIFT_DURATION]
    ELSE cfg

\* if (config.liftDuration < 500) config.liftDuration = DEFAULT_LIFT_DURATION;
clampLiftDuration(cfg) ==
    IF ULess(cfg.liftDuration, LiftDurationFloor)
        THEN [cfg EXCEPT !.liftDuration = DEFAULT_LIFT_DURATION]
    ELSE cfg

\* if (config.nudgeDuration < 50) config.nudgeDuration = DEFAULT_NUDGE_DURATION;
clampNudgeDuration(cfg) ==
    IF ULess(cfg.nudgeDuration, NudgeDurationFloor)
        THEN [cfg EXCEPT !.nudgeDuration = DEFAULT_NUDGE_DURATION]
    ELSE cfg

\* getULong() with the default for a missing key: flash holds the defaults
\* until the first saveConfig()
loadConfig(flash) ==
    [ liftDuration |-> flash.liftDuration,
      nudgeDuration |-> flash.nudgeDuration ]

\* A form field or portal parameter that was not submitted
NotSubmitted == <<"(none)">>

\* The durations setup() ends with: loadConfig(), the WiFiManager parameters
\* preset with the loaded values and replaced by what the portal's user
\* entered, if anything, then atoi() and the floors.
setup(flash, liftEntry, nudgeEntry) ==
    LET loaded == loadConfig(flash)
        liftParam == ParamValue(IF liftEntry = NotSubmitted
                                    THEN UDecimal(loaded.liftDuration)
                                ELSE liftEntry)
        nudgeParam == ParamValue(IF nudgeEntry = NotSubmitted
                                     THEN UDecimal(loaded.nudgeDuration)
                                 ELSE nudgeEntry)
        c1 == clampLiftDuration([loaded EXCEPT !.liftDuration = atoi(liftParam)])
    IN clampNudgeDuration([c1 EXCEPT !.nudgeDuration = atoi(nudgeParam)])

\* The numbers submitted for a duration with the given floor
SubmittedNumbers(floor) ==
    {0, LongNumber} \cup { floor + k : k \in (-MaxOffset)..MaxOffset }

\* What is typed into the field: a number, a negative number, a number
\* followed by its unit, nothing, or a word
SubmittedTexts(floor) ==
    { Decimal(n) : n \in SubmittedNumbers(floor) }
        \cup { <<"-">> \o Decimal(n) : n \in SubmittedNumbers(floor) }
        \cup { Decimal(n) \o <<"m", "s">> : n \in SubmittedNumbers(floor) }
        \cup { <<>>, <<"a", "b", "c">> }

---------------------------------------------------------------------------
\* The state machine

\* The actuator state a handler found, kept for the handler's effect to be
\* stated on the state it leaves.
\* No task is inside a handler: the loop task is between two passes of
\* loop(), the web server's task and the MQTT client's task wait for a request.
HandlerIdle == [ pc |-> "idle", direction |-> "", toLimit |-> FALSE ]

TasksIdle ==
    [ post |-> "idle",
      loop |-> [ pc |-> "idle", hitDirection |-> "" ],
      web |-> HandlerIdle,
      mqtt |-> HandlerIdle ]

Found(m) ==
    [ isLifting |-> m.st.isLifting, isNudging |-> m.st.isNudging,
      sendToLimit |-> m.st.sendToLimit, liftDirection |-> m.st.liftDirection ]

Install(m) ==
    /\ state' = m.st
    /\ relayUpPin' = m.up
    /\ relayDownPin' = m.down
    /\ ultrasonicFailCount' = m.fail
    /\ lastUltrasonicRead' = m.lastRead
    /\ published' = m.pub

\* setup(): relays off, then setupSensors() takes the first sensor reading
Init ==
    /\ now = BootDelay
    /\ config = [ liftDuration |-> DEFAULT_LIFT_DURATION,
                  nudgeDuration |-> DEFAULT_NUDGE_DURATION ]
    /\ stored = config
    /\ task = TasksIdle
    /\ \E level \in PinLevels, pulse \in PulseDurations :
           LET m == [ st |-> InitialDeviceState, up |-> RELAY_OFF,
                      down |-> RELAY_OFF, fail |-> 0, lastRead |-> 0,
                      pub |-> Snapshot(InitialDeviceState) ]
               b == updateSensors(m, level, pulse)
           IN /\ state = b.st
              /\ relayUpPin = b.up
              /\ relayDownPin = b.down
              /\ ultrasonicFailCount = b.fail
              /\ lastUltrasonicRead = b.lastRead
              /\ published = b.pub
              /\ last = [ op |-> "boot", cmd |-> "", level |-> level,
                          pulse |-> pulse, found |-> Found(m) ]

\* Time passes between two handlers.
ClockAdvance ==
    /\ \E t \in Instants : t > now /\ now' = t
    /\ last' = [ op |-> "clock", cmd |-> "", level |-> "LOW", pulse |-> 0,
                 found |-> Found(Machine) ]
    /\ UNCHANGED <<state, relayUpPin, relayDownPin, ultrasonicFailCount,
                   lastUltrasonicRead, published, config, stored, task>>

\* One pass of loop().
Tick ==
    \E level \in PinLevels, pulse \in PulseDurations :
        /\ Install(loop(Machine, level, pulse))
        /\ last' = [ op |-> "tick", cmd |-> "", level |-> level,
                     pulse |-> pulse, found |-> Found(Machine) ]
        /\ UNCHANGED <<config, now, stored, task>>

\* An MQTT bedLift command arrives.
MqttCommand ==
    \E value \in CommandValues :
        /\ Install(onMqttMessage(Machine, value))
        /\ last' = [ op |-> "command", cmd |-> value, level |-> "LOW",
                     pulse |-> 0, found |-> Found(Machine) ]
        /\ UNCHANGED <<config, now, stored, task>>

\* GET /lift?dir=...
WebLift ==
    \E dir \in LiftParams :
        /\ Install(webLift(Machine, dir))
        /\ last' = [ op |-> "command", cmd |-> dir, level |-> "LOW",
                     pulse |-> 0, found |-> Found(Machine) ]
        /\ UNCHANGED <<config, now, stored, task>>

\* GET /calibrate?pos=...
WebCalibrate ==
    \E pos \in {"top", "bottom"} :
        /\ Install(webCalibrate(Machine, pos))
        /\ last' = [ op |-> "command", cmd |-> "calibrate_" \o pos,
                     level |-> "LOW", pulse |-> 0, found |-> Found(Machine) ]
        /\ UNCHANGED <<config, now, stored, task>>

Next ==
    \/ ClockAdvance
    \/ Tick
    \/ MqttCommand
    \/ WebLift
    \/ WebCalibrate

Spec == Init /\ [][Next]_vars

\* The position calibrator on its own: the controller stays Idle, the sensor
\* is read at every read interval and returns any of the EchoWidths, and
\* calibrate commands arrive at any time.

\* The read interval passes.
ReadIntervalPasses ==
    /\ now < BootDelay + MaxReads * ULTRASONIC_READ_INTERVAL
    /\ now' = now + ULTRASONIC_READ_INTERVAL
    /\ last' = [ op |-> "clock", cmd |-> "", level |-> "LOW", pulse |-> 0,
                 found |-> Found(Machine) ]
    /\ UNCHANGED <<state, relayUpPin, relayDownPin, ultrasonicFailCount,
                   lastUltrasonicRead, published, config, stored, task>>

\* One pass of loop() with the reed switch open.
SensorTick ==
    \E pulse \in EchoWidths :
        /\ Install(loop(Machine, "LOW", pulse))
        /\ last' = [ op |-> "tick", cmd |-> "", level |-> "LOW",
                     pulse |-> pulse, found |-> Found(Machine) ]
        /\ UNCHANGED <<config, now, stored, task>>

\* An MQTT calibrate command arrives.
MqttCalibrate ==
    \E value \in {"calibrate_top", "calibrate_bottom"} :
        /\ Install(onMqttMessage(Machine, value))
        /\ last' = [ op |-> "command", cmd |-> value, level |-> "LOW",
                     pulse |-> 0, found |-> Found(Machine) ]
        /\ UNCHANGED <<config, now, stored, task>>

CalNext ==
    \/ ReadIntervalPasses
    \/ SensorTick
    \/ MqttCalibrate
    \/ WebCalibrate

CalSpec == Init /\ [][CalNext]_vars

\* The configuration on its own: the form of POST /config is handled a
\* statement at a time, then saved, and the device restarts; it also restarts
\* on its own, with or without the WiFiManager portal being used.

\* setup() after a restart: relays off, first sensor reading, and the
\* durations loaded, parsed, clamped and saved again.
Restarted(liftEntry, nudgeEntry) ==
    /\ config' = setup(stored, liftEntry, nudgeEntry)
    /\ stored' = config'
    /\ task' = TasksIdle
    /\ \E level \in PinLevels, pulse \in PulseDurations :
           LET m == [ st |-> InitialDeviceState, up |-> RELAY_OFF,
                      down |-> RELAY_OFF, fail |-> 0, lastRead |-> 0,
                      pub |-> Snapshot(InitialDeviceState) ]
           IN /\ Install(updateSensors(m, level, pulse))
              /\ last' = [ op |-> "boot", cmd |-> "", level |-> level,
                           pulse |-> pulse, found |-> Found(m) ]

\* The device is switched off and on; the portal may be used.
Restart ==
    /\ task.post = "idle"
    /\ now = BootDelay
    /\ \E liftEntry \in SubmittedTexts(LiftDurationFloor) \cup {NotSubmitted},
          nudgeEntry \in SubmittedTexts(NudgeDurationFloor) \cup {NotSubmitted} :
           Restarted(liftEntry, nudgeEntry)
    /\ UNCHANGED now

\* POST /config: config.liftDuration = value().toInt(), if submitted
PostLiftDuration ==
    /\ task.post = "idle"
    /\ \E text \in SubmittedTexts(LiftDurationFloor) \cup {NotSubmitted} :
           IF text = NotSubmitted
               THEN /\ task' = [task EXCEPT !.post = "nudgeDuration"]
                    /\ UNCHANGED config
           ELSE /\ task' = [task EXCEPT !.post = "liftFloor"]
                /\ config' = [config EXCEPT !.liftDuration = toInt(text)]
    /\ last' = [last EXCEPT !.op = "post"]
    /\ UNCHANGED <<state, relayUpPin, relayDownPin, ultrasonicFailCount,
                   lastUltrasonicRead, published, now, stored>>

\* POST /config: the floor of the lift duration
PostLiftFloor ==
    /\ task.post = "liftFloor"
    /\ task' = [task EXCEPT !.post = "nudgeDuration"]
    /\ config' = clampLiftDuration(config)
    /\ UNCHANGED <<state, relayUpPin, relayDownPin, ultrasonicFailCount,
                   lastUltrasonicRead, published, now, stored, last>>

\* POST /config: config.nudgeDuration = value().toInt(), if submitted
PostNudgeDuration ==
    /\ task.post = "nudgeDuration"
    /\ \E text \in SubmittedTexts(NudgeDurationFloor) \cup {NotSubmitted} :
           IF text = NotSubmitted
               THEN /\ task' = [task EXCEPT !.post = "save"]
                    /\ UNCHANGED config
           ELSE /\ task' = [task EXCEPT !.post = "nudgeFloor"]
                /\ config' = [config EXCEPT !.nudgeDuration = toInt(text)]
    /\ UNCHANGED <<state, relayUpPin, relayDownPin, ultrasonicFailCount,
                   lastUltrasonicRead, published, now, stored, last>>

\* POST /config: the floor of the nudge duration
PostNudgeFloor ==
    /\ task.post = "nudgeFloor"
    /\ task' = [task EXCEPT !.post = "save"]
    /\ config' = clampNudgeDuration(config)
    /\ UNCHANGED <<state, relayUpPin, relayDownPin, ultrasonicFailCount,
                   lastUltrasonicRead, published, now, stored, last>>

\* POST /config: saveConfig()
PostSave ==
    /\ task.post = "save"
    /\ task' = [task EXCEPT !.post = "restart"]
    /\ stored' = config
    /\ UNCHANGED <<state, relayUpPin, relayDownPin, ultrasonicFailCount,
                   lastUltrasonicRead, published, config, now, last>>

\* POST /config: ESP.restart(), and setup() runs without the portal
PostRestart ==
    /\ task.post = "restart"
    /\ now = BootDelay
    /\ Restarted(NotSubmitted, NotSubmitted)
    /\ UNCHANGED now

ConfigNext ==
    \/ Restart
    \/ PostLiftDuration
    \/ PostLiftFloor
    \/ PostNudgeDuration
    \/ PostNudgeFloor
    \/ PostSave
    \/ PostRestart

ConfigSpec == Init /\ [][ConfigNext]_vars

\* The three tasks together, a statement or a run of statements at a time.
\* The clock stands still: no timer expires and the ultrasonic sensor is
\* not read again while the tasks interleave.

Handlers == {"web", "mqtt"}

LoopAt(pc) == task.loop.pc = pc

LoopTo(pc, hitDirection) ==
    task' = [task EXCEPT !.loop = [ pc |-> pc, hitDirection |-> hitDirection ]]

HandlerTo(h, pc) == task' = [task EXCEPT ![h].pc = pc]

RaceFrame == UNCHANGED <<config, now, stored, last>>

ProgramSame ==
    UNCHANGED <<state, relayUpPin, relayDownPin, ultrasonicFailCount,
                lastUltrasonicRead, published>>

\* loop(): updateSensors(), unless a drive has just hit the limit
LoopSensors ==
    /\ LoopAt("idle")
    /\ \E level \in PinLevels, pulse \in PulseDurations :
           /\ ~limitHitWhileLifting(sensorsBeforeReedSwitch(Machine, pulse), level)
           /\ Install(updateSensors(Machine, level, pulse))
    /\ LoopTo("updateLift", "")
    /\ RaceFrame

\* loop(): updateSensors() as far as readReedSwitch's stopLift("limit")
LoopLimitStop ==
    /\ LoopAt("idle")
    /\ \E pulse \in PulseDurations :
           LET m == sensorsBeforeReedSwitch(Machine, pulse)
           IN /\ limitHitWhileLifting(m, "HIGH")
              /\ Install(readReedSwitchStop(m))
              /\ LoopTo("startNudge", m.st.liftDirection)
    /\ RaceFrame

\* readReedSwitch: startNudge(hitDirection), its two assignments
LoopNudgeFields ==
    /\ LoopAt("startNudge")
    /\ Install(startNudgeFields(Machine))
    /\ LoopTo("nudgeRelayUp", task.loop.hitDirection)
    /\ RaceFrame

\* startNudge: the first pin write
LoopNudgeRelayUp ==
    /\ LoopAt("nudgeRelayUp")
    /\ Install(startNudgeRelayUp(Machine, task.loop.hitDirection))
    /\ LoopTo("nudgeRelayDown", task.loop.hitDirection)
    /\ RaceFrame

\* startNudge: the second pin write
LoopNudgeRelayDown ==
    /\ LoopAt("nudgeRelayDown")
    /\ Install(startNudgeRelayDown(Machine, task.loop.hitDirection))
    /\ LoopTo("updateLift", "")
    /\ RaceFrame

\* loop(): updateLift()
LoopUpdateLift ==
    /\ LoopAt("updateLift")
    /\ Install(updateLift(Machine))
    /\ LoopTo("updateNudge", "")
    /\ RaceFrame

\* loop(): updateNudge(), and the pass is over
LoopUpdateNudge ==
    /\ LoopAt("updateNudge")
    /\ Install(updateNudge(Machine))
    /\ LoopTo("idle", "")
    /\ RaceFrame

\* A stop command: stopLift("manual")
HandlerStop(h) ==
    /\ task[h].pc = "idle"
    /\ Install(stopLift(Machine, "manual"))
    /\ UNCHANGED task
    /\ RaceFrame

\* A start command: startLift's isSafeToMove check; it returns when refused
HandlerCheck(h) ==
    /\ task[h].pc = "idle"
    /\ \E direction \in Directions, toLimit \in BOOLEAN :
           /\ isSafeToMove(Machine, direction)
           /\ task' = [task EXCEPT ![h] = [ pc |-> "stopLift",
                                            direction |-> direction,
                                            toLimit |-> toLimit ]]
    /\ ProgramSame
    /\ RaceFrame

\* startLift: stopLift("starting_new")
HandlerStopFirst(h) ==
    /\ task[h].pc = "stopLift"
    /\ Install(stopLift(Machine, "starting_new"))
    /\ HandlerTo(h, "fields")
    /\ RaceFrame

\* startLift: the five assignments
HandlerFields(h) ==
    /\ task[h].pc = "fields"
    /\ Install(startLiftFields(Machine, task[h].direction, task[h].toLimit))
    /\ HandlerTo(h, "relayUp")
    /\ RaceFrame

\* startLift: the first pin write
HandlerRelayUp(h) ==
    /\ task[h].pc = "relayUp"
    /\ Install(startLiftRelayUp(Machine, task[h].direction))
    /\ HandlerTo(h, "relayDown")
    /\ RaceFrame

\* startLift: the second pin write
HandlerRelayDown(h) ==
    /\ task[h].pc = "relayDown"
    /\ Install(startLiftRelayDown(Machine, task[h].direction))
    /\ HandlerTo(h, "flags")
    /\ RaceFrame

\* startLift: the relay flags and publishState(); the handler returns
HandlerFlags(h) ==
    /\ task[h].pc = "flags"
    /\ Install(startLiftFlags(Machine, task[h].direction))
    /\ task' = [task EXCEPT ![h] = HandlerIdle]
    /\ RaceFrame

RaceNext ==
    \/ LoopSensors
    \/ LoopLimitStop
    \/ LoopNudgeFields
    \/ LoopNudgeRelayUp
    \/ LoopNudgeRelayDown
    \/ LoopUpdateLift
    \/ LoopUpdateNudge
    \/ \E h \in Handlers : HandlerStop(h)
    \/ \E h \in Handlers : HandlerCheck(h)
    \/ \E h \in Handlers : HandlerStopFirst(h)
    \/ \E h \in Handlers : HandlerFields(h)
    \/ \E h \in Handlers : HandlerRelayUp(h)
    \/ \E h \in Handlers : HandlerRelayDown(h)
    \/ \E h \in Handlers : HandlerFlags(h)

RaceSpec == Init /\ [][RaceNext]_vars

---------------------------------------------------------------------------
\* Vocabulary of the properties

Energized(pin) == pin = RELAY_ON

BothRelaysOff == ~Energized(relayUpPin) /\ ~Energized(relayDownPin)

\* ActuatorState: Idle, Driving(dir, mode), Nudging(dir)
Idle == ~state.isLifting /\ ~state.isNudging

Driving(dir, toLimit) ==
    /\ state.isLifting
    /\ state.liftDirection = dir
    /\ state.sendToLimit = toLimit

Opposite(dir) == IF dir = "raise" THEN "lower" ELSE "raise"

\* The level the step leaves on the relay pin of direction dir.
RelayPinAfter(dir) == IF dir = "raise" THEN relayUpPin' ELSE relayDownPin'

\* The direction a running nudge backs away from, read off the relays.
NudgeAwayFrom == IF Energized(relayDownPin) THEN "raise" ELSE "lower"

ObstacleBelow ==
    /\ state.ultrasonicOk
    /\ state.distanceCm > 0
    /\ state.distanceCm < MIN_SAFE_DISTANCE_CM * CmScale

StartCommands == {"raise", "lower", "sendToTop", "sendToBottom"}

CommandDirection(cmd) ==
    IF cmd \in {"raise", "sendToTop"} THEN "raise" ELSE "lower"

CommandToLimit(cmd) == cmd \in {"sendToTop", "sendToBottom"}

\* The step being taken is a pass of loop().
TickStep == last'.op = "tick"

\* The step being taken delivers command cmd (over MQTT or the web).
CommandStep(cmd) == last'.op = "command" /\ last'.cmd = cmd

\* The pass of loop() being taken reads the reed switch as newly triggered.
LimitTriggersNow == TickStep /\ last'.level = "HIGH" /\ ~state.atLimit

\* Nothing of the program's state changes in the step.
ProgramUnchanged ==
    UNCHANGED <<state, relayUpPin, relayDownPin, ultrasonicFailCount,
                lastUltrasonicRead, published, config>>

\* The step leaves the controller Driving(dir, toLimit), freshly started.
StartsDriving(dir, toLimit) ==
    /\ state'.isLifting
    /\ ~state'.isNudging
    /\ state'.liftDirection = dir
    /\ state'.sendToLimit = toLimit
    /\ state'.liftStartTime = now
    /\ RelayPinAfter(dir) = RELAY_ON
    /\ RelayPinAfter(Opposite(dir)) = RELAY_OFF

---------------------------------------------------------------------------
\* C1. Relay mutual exclusion: in every reachable state the up relay and the
\* down relay are not both energized, neither as pin outputs nor as the
\* state.relayUp / state.relayDown telemetry flags.
RelayMutualExclusion ==
    /\ ~(Energized(relayUpPin) /\ Energized(relayDownPin))
    /\ ~(state.relayUp /\ state.relayDown)

\* A raise command has just reversed a lowering drive: the up relay is on.
RelayMutualExclusionWitness ==
    /\ last.op = "command"
    /\ last.cmd \in {"raise", "sendToTop"}
    /\ last.found.isLifting
    /\ last.found.liftDirection = "lower"
    /\ state.isLifting
    /\ Energized(relayUpPin)
    /\ state.relayUp

\* C2. Send-to-limit watchdog: a pass of loop() that finds a send-to-limit
\* drive with elapsed >= MAX_SEND_TO_LIMIT_DURATION never leaves it driving;
\* unless the limit switch ended the drive earlier in the same pass, it ends
\* Idle with both relays de-energized and stop reason safety_timeout.
SendToLimitWatchdog ==
    [][ ( /\ TickStep
          /\ state.isLifting
          /\ state.sendToLimit
          /\ now - state.liftStartTime >= MAX_SEND_TO_LIMIT_DURATION )
        => ( /\ ~state'.isLifting
             /\ ~LimitTriggersNow
                => ( /\ Idle'
                     /\ BothRelaysOff'
                     /\ ~state'.relayUp /\ ~state'.relayDown
                     /\ state'.lastStopReason = "safety_timeout" ) ) ]_vars

SendToLimitWatchdogWitness ==
    /\ last.op = "tick"
    /\ last.found.isLifting
    /\ last.found.sendToLimit
    /\ Idle
    /\ BothRelaysOff
    /\ state.lastStopReason = "safety_timeout"

\* C3. Limit hit while driving: a pass of loop() that finds a drive in
\* direction d and reads the limit switch as newly triggered stops the drive
\* with reason limit, sets limit_direction to d and starts the nudge opposite
\* to d in the same pass; and every pass that stops a drive with reason limit
\* leaves that nudge running.
LimitHitStartsNudge ==
    [][ ( /\ TickStep
          /\ state.isLifting
          /\ (LimitTriggersNow \/ state'.lastStopReason = "limit") )
        => ( /\ ~state'.isLifting
             /\ state'.lastStopReason = "limit"
             /\ state'.atLimit
             /\ state'.limitDirection = state.liftDirection
             /\ state'.isNudging
             /\ state'.nudgeStartTime = now
             /\ RelayPinAfter(Opposite(state.liftDirection)) = RELAY_ON
             /\ RelayPinAfter(state.liftDirection) = RELAY_OFF ) ]_vars

LimitHitStartsNudgeWitness ==
    /\ last.op = "tick"
    /\ last.found.isLifting
    /\ last.found.liftDirection = "raise"
    /\ state.lastStopReason = "limit"
    /\ state.limitDirection = "raise"
    /\ state.isNudging
    /\ Energized(relayDownPin)

\* C4. Nudge is bounded and not re-entrant: a pass of loop() that finds a
\* nudge with elapsed >= nudge_duration ends it (is_nudging false, both relays
\* de-energized); a nudge starts only in a pass of loop() that finds a drive
\* and reads the limit switch as newly triggered; a running nudge is never
\* restarted or redirected.
NudgeBoundedNotReentrant ==
    [][ /\ ( /\ TickStep
             /\ state.isNudging
             /\ now - state.nudgeStartTime >= config.nudgeDuration )
           => (~state'.isNudging /\ BothRelaysOff')
        /\ (~state.isNudging /\ state'.isNudging)
           => (state.isLifting /\ LimitTriggersNow /\ state'.nudgeStartTime = now)
        /\ (state.isNudging /\ state'.isNudging)
           => ( /\ state'.nudgeStartTime = state.nudgeStartTime
                /\ relayUpPin' = relayUpPin
                /\ relayDownPin' = relayDownPin ) ]_vars

\* A pass of loop() has just ended a nudge on its timer: the switch stayed
\* triggered, so it was neither a re-trigger nor a command that ended it.
NudgeBoundedNotReentrantWitness ==
    /\ last.op = "tick"
    /\ last.found.isNudging
    /\ last.level = "HIGH"
    /\ state.limitDirection # ""
    /\ ~state.isNudging
    /\ BothRelaysOff

\* C5. Directional lock: with the limit switch triggered, limit_direction = D
\* and no nudge in progress, a start command in direction D changes nothing
\* (rejected), and a start command in the opposite direction is accepted
\* unless it is a lowering command with an obstacle below; for D = raise and
\* for D = lower.
DirectionalLock ==
    [][ \A cmd \in StartCommands, D \in Directions :
          ( /\ CommandStep(cmd)
            /\ state.atLimit
            /\ state.limitDirection = D
            /\ ~state.isNudging )
          => IF CommandDirection(cmd) = D
                 THEN ProgramUnchanged
             ELSE IF CommandDirection(cmd) = "lower" /\ ObstacleBelow
                 THEN TRUE
             ELSE StartsDriving(CommandDirection(cmd), CommandToLimit(cmd)) ]_vars

\* A lower command has just been refused at the bottom limit, with no
\* obstacle below and no nudge running.
DirectionalLockWitness ==
    /\ last.op = "command"
    /\ last.cmd \in {"lower", "sendToBottom"}
    /\ ~last.found.isNudging
    /\ ~last.found.isLifting
    /\ state.atLimit
    /\ state.limitDirection = "lower"
    /\ ~ObstacleBelow
    /\ Idle

\* C6 as stated. Obstacle stop: a pass of loop() that finds a lowering drive
\* and leaves the sensor healthy with a distance below MIN_SAFE_DISTANCE_CM
\* leaves the controller Idle with both relays de-energized.
ObstacleStopLeavesIdle ==
    [][ ( /\ TickStep
          /\ state.isLifting
          /\ state.liftDirection = "lower"
          /\ ObstacleBelow' )
        => (Idle' /\ BothRelaysOff') ]_vars

\* C6 as amended. The lowering drive is over and the down relay de-energized
\* at the end of such a pass; the controller is Idle with both relays
\* de-energized unless the limit switch triggered in that pass (then the
\* upward nudge runs); the stop reason is obstacle unless the timer or the
\* limit stopped the drive first.  A raising drive is never stopped with
\* reason obstacle, and a raise command outside a nudge and not blocked by
\* the limit is accepted whatever the distance reading.
ObstacleStop ==
    [][ /\ ( /\ TickStep
             /\ state.isLifting
             /\ state.liftDirection = "lower"
             /\ ObstacleBelow' )
           => ( /\ ~state'.isLifting
                /\ ~Energized(relayDownPin')
                /\ IF LimitTriggersNow
                       THEN /\ state'.isNudging
                            /\ Energized(relayUpPin')
                            /\ state'.lastStopReason = "limit"
                       ELSE /\ Idle'
                            /\ BothRelaysOff'
                            /\ state'.lastStopReason
                                   \in {"obstacle", "timer", "safety_timeout"}
                            /\ state'.lastStopReason = "obstacle"
                               <=> IF state.sendToLimit
                                       THEN now - state.liftStartTime
                                                < MAX_SEND_TO_LIMIT_DURATION
                                       ELSE now - state.liftStartTime
                                                < config.liftDuration )
        /\ ( /\ TickStep
             /\ state.isLifting
             /\ state.liftDirection = "raise" )
           => state'.lastStopReason # "obstacle"
        /\ \A cmd \in {"raise", "sendToTop"} :
             ( /\ CommandStep(cmd)
               /\ ~state.isNudging
               /\ ~(state.atLimit /\ state.limitDirection \in {"", "raise"}) )
             => StartsDriving("raise", CommandToLimit(cmd)) ]_vars

\* A pass of loop() has just stopped a lowering drive for an obstacle.
ObstacleStopWitness ==
    /\ last.op = "tick"
    /\ last.found.isLifting
    /\ last.found.liftDirection = "lower"
    /\ ObstacleBelow
    /\ state.lastStopReason = "obstacle"
    /\ Idle
    /\ BothRelaysOff

\* The pass of loop() being taken completes a running nudge on its timer
\* (it is not a limit re-trigger that ends it).
NudgeCompletes ==
    /\ TickStep
    /\ state.isNudging
    /\ ~state'.isNudging
    /\ ~LimitTriggersNow

\* C7 as stated. After a limit-triggered stop of a drive in direction d and
\* the completion of the resulting nudge, the controller is Idle and
\* limit_direction equals d.
NudgeCompletionKeepsLimitDirection ==
    [][ NudgeCompletes
        => (Idle' /\ state'.limitDirection = NudgeAwayFrom) ]_vars

\* C7 as amended. When the nudge completes the controller is Idle with both
\* relays de-energized; limit_direction equals d if the switch is still
\* triggered, and is unset if the switch has cleared during the nudge.
NudgeCompletionLimitDirection ==
    [][ NudgeCompletes
        => ( /\ Idle'
             /\ BothRelaysOff'
             /\ state'.limitDirection
                    = IF state'.atLimit THEN NudgeAwayFrom ELSE "" ) ]_vars

\* Scenario C with the switch held: raise to the top limit, nudge down, Idle
\* with limit_direction = raise.
NudgeCompletionLimitDirectionWitness ==
    /\ last.op = "tick"
    /\ last.found.isNudging
    /\ last.level = "HIGH"
    /\ Idle
    /\ BothRelaysOff
    /\ state.atLimit
    /\ state.limitDirection = "raise"
    /\ state.lastStopReason = "limit"

\* C8. Stop wins over a drive: a stop command delivered in any Driving state
\* leaves, in the same step, Idle with both relays de-energized and last stop
\* reason manual.
StopWinsOverDrive ==
    [][ (CommandStep("stop") /\ state.isLifting)
        => ( /\ Idle'
             /\ BothRelaysOff'
             /\ ~state'.relayUp /\ ~state'.relayDown
             /\ ~state'.sendToLimit
             /\ state'.liftDirection = ""
             /\ state'.lastStopReason = "manual" ) ]_vars

\* A stop command has just ended a send-to-limit drive.
StopWinsOverDriveWitness ==
    /\ last.op = "command"
    /\ last.cmd = "stop"
    /\ last.found.isLifting
    /\ last.found.sendToLimit
    /\ Idle
    /\ BothRelaysOff
    /\ state.lastStopReason = "manual"

\* C9 as stated. A nudge cannot be cancelled: a stop command delivered while
\* Nudging leaves is_nudging true and the nudge relay energized.
StopLeavesNudgeRunning ==
    [][ (CommandStep("stop") /\ state.isNudging)
        => ( /\ state'.isNudging
             /\ relayUpPin' = relayUpPin
             /\ relayDownPin' = relayDownPin ) ]_vars

\* C9 as amended. A stop command delivered while Nudging cancels the nudge in
\* the same step: is_nudging false, nudge timer cleared, both relays
\* de-energized; the limit state and the last stop reason are unchanged.
StopCancelsNudge ==
    [][ (CommandStep("stop") /\ state.isNudging)
        => ( /\ Idle'
             /\ BothRelaysOff'
             /\ state'.nudgeStartTime = 0
             /\ state'.atLimit = state.atLimit
             /\ state'.limitDirection = state.limitDirection
             /\ state'.lastStopReason = state.lastStopReason ) ]_vars

\* A stop command has just been delivered during a nudge.
StopCancelsNudgeWitness ==
    /\ last.op = "command"
    /\ last.cmd = "stop"
    /\ last.found.isNudging
    /\ Idle
    /\ BothRelaysOff

\* C10. While a nudge is in progress every start command is rejected: the
\* step changes nothing, so no Driving state is entered and the nudge's
\* relays and timer are as they were.
StartRejectedWhileNudging ==
    [][ \A cmd \in StartCommands :
          (CommandStep(cmd) /\ state.isNudging)
          => ( /\ ProgramUnchanged
               /\ ~state'.isLifting
               /\ state'.isNudging ) ]_vars

\* A start command has just been delivered during a nudge, which still runs.
StartRejectedWhileNudgingWitness ==
    /\ last.op = "command"
    /\ last.cmd \in StartCommands
    /\ last.found.isNudging
    /\ state.isNudging
    /\ ~state.isLifting
    /\ Energized(relayUpPin) \/ Energized(relayDownPin)

\* C11. Limit re-trigger during a nudge: a pass of loop() that finds a nudge
\* running and reads the limit switch as newly triggered ends the nudge with
\* both relays de-energized, clears limit_direction, records the last stop
\* reason as limit_during_nudge and starts no new nudge.
LimitDuringNudgeRecorded ==
    [][ (state.isNudging /\ LimitTriggersNow)
        => ( /\ Idle'
             /\ BothRelaysOff'
             /\ state'.atLimit
             /\ state'.limitDirection = ""
             /\ state'.nudgeStartTime = 0
             /\ state'.lastStopReason = "limit_during_nudge" ) ]_vars

\* The safety predicate as the controller's contract states it: no nudge in
\* progress, the limit switch not blocking direction dir, and no obstacle
\* below a lowering.
Permitted(dir) ==
    /\ ~state.isNudging
    /\ ~(state.atLimit /\ state.limitDirection \in {"", dir})
    /\ ~(dir = "lower" /\ ObstacleBelow)

\* C12. A start command accepted while a drive is in progress first stops
\* that drive (both relays de-energized, the stop recorded and published with
\* reason starting_new) and then starts the new one from the stopped state:
\* afterwards the controller is Driving(new direction, new mode) with the
\* timer restarted at now, only the new direction's relay energized, the
\* telemetry flags and the published state showing the new drive, and every
\* other field as the stop left it.
StartSupersedesDrive ==
    [][ \A cmd \in StartCommands :
          ( /\ CommandStep(cmd)
            /\ state.isLifting
            /\ Permitted(CommandDirection(cmd)) )
          => LET stopped == stopLift(Machine, "starting_new")
                 dir == CommandDirection(cmd)
             IN /\ stopped.up = RELAY_OFF /\ stopped.down = RELAY_OFF
                /\ ~stopped.st.isLifting
                /\ stopped.st.lastStopReason = "starting_new"
                /\ stopped.pub.lastStopReason = "starting_new"
                /\ StartsDriving(dir, CommandToLimit(cmd))
                /\ state' = [stopped.st EXCEPT
                                !.isLifting = TRUE,
                                !.liftDirection = dir,
                                !.sendToLimit = CommandToLimit(cmd),
                                !.liftStartTime = now,
                                !.lastStopReason = "",
                                !.relayUp = (dir = "raise"),
                                !.relayDown = (dir = "lower")]
                /\ published' = Snapshot(state') ]_vars

\* A timed lower command has just superseded a send-to-top drive, later than
\* the boot instant.
StartSupersedesDriveWitness ==
    /\ last.op = "command"
    /\ last.cmd = "lower"
    /\ last.found.isLifting
    /\ last.found.liftDirection = "raise"
    /\ last.found.sendToLimit
    /\ Driving("lower", FALSE)
    /\ state.liftStartTime = now
    /\ now > BootDelay
    /\ Energized(relayDownPin)
    /\ ~Energized(relayUpPin)

\* C13. A refused start changes nothing: a start command delivered when the
\* safety predicate fails for its direction (a nudge in progress, the limit
\* switch blocking that direction, or an obstacle below a lowering) leaves
\* is_lifting, mode, direction, start time, both relays, is_nudging,
\* limit_direction, last stop reason, the calibration and the published state
\* exactly as they were, also when a drive is in progress.
RefusedStartChangesNothing ==
    [][ \A cmd \in StartCommands :
          (CommandStep(cmd) /\ ~Permitted(CommandDirection(cmd)))
          => ProgramUnchanged ]_vars

\* A lowering command has just been refused for an obstacle while a raising
\* drive was in progress: the drive continues.
RefusedStartChangesNothingWitness ==
    /\ last.op = "command"
    /\ last.cmd \in {"lower", "sendToBottom"}
    /\ last.found.isLifting
    /\ last.found.liftDirection = "raise"
    /\ ObstacleBelow
    /\ state.isLifting
    /\ state.liftDirection = "raise"
    /\ Energized(relayUpPin)

\* C14. Accepted start from Idle: whenever the safety predicate holds for a
\* direction, a start command for that direction and either mode delivered
\* while Idle leaves the controller Driving(direction, mode), started at now,
\* with the relay of that direction energized and the other de-energized, the
\* telemetry flags matching, and the last stop reason cleared.
AcceptedStartFromIdle ==
    [][ \A cmd \in StartCommands :
          ( /\ CommandStep(cmd)
            /\ Idle
            /\ Permitted(CommandDirection(cmd)) )
          => ( /\ StartsDriving(CommandDirection(cmd), CommandToLimit(cmd))
               /\ state'.relayUp = (CommandDirection(cmd) = "raise")
               /\ state'.relayDown = (CommandDirection(cmd) = "lower")
               /\ state'.lastStopReason = ""
               /\ published' = Snapshot(state') ) ]_vars

\* Scenario A: a raise command delivered while Idle, with something closer
\* than the safe distance below, has just started a timed raise.
AcceptedStartFromIdleWitness ==
    /\ last.op = "command"
    /\ last.cmd = "raise"
    /\ ~last.found.isLifting
    /\ ~last.found.isNudging
    /\ ObstacleBelow
    /\ Driving("raise", FALSE)
    /\ state.liftStartTime = now
    /\ Energized(relayUpPin)
    /\ ~Energized(relayDownPin)

\* The limit switch is triggered with its direction unknown and nothing moves.
BlockedBothWays ==
    /\ state.atLimit
    /\ state.limitDirection = ""
    /\ Idle

\* The limit switch is read as triggered while nothing moves: at the first
\* read in setup(), or newly in a pass of loop() that finds the controller
\* Idle.  Either way limit_direction is left unset and the controller Idle.
IdleTriggerLeavesDirectionUnset ==
    /\ (last.op = "boot" /\ last.level = "HIGH") => BlockedBothWays
    /\ [][ (LimitTriggersNow /\ Idle) => BlockedBothWays' ]_vars

\* C15 as stated. When the limit switch is triggered with no motion in
\* progress, limit_direction is left unset and start commands in both
\* directions are rejected; the two-way block lasts only until the next drive
\* attempt (it does not require the switch to clear), so the block is over
\* after a start command has been delivered.
UnknownLimitBlockEndsAtDriveAttempt ==
    /\ IdleTriggerLeavesDirectionUnset
    /\ [][ \A cmd \in StartCommands :
             (CommandStep(cmd) /\ BlockedBothWays)
             => (~state'.isLifting /\ ~BlockedBothWays') ]_vars

\* C15 as amended. limit_direction is left unset and start commands in both
\* directions are rejected, changing nothing; the two-way block lasts until a
\* pass of loop() reads the switch as cleared, and that pass ends it.
UnknownLimitBlocksUntilCleared ==
    /\ IdleTriggerLeavesDirectionUnset
    /\ [][ /\ \A cmd \in StartCommands :
                (CommandStep(cmd) /\ BlockedBothWays) => ProgramUnchanged
           /\ BlockedBothWays
              => IF TickStep /\ last'.level = "LOW"
                     THEN ~state'.atLimit /\ state'.limitDirection = "" /\ Idle'
                 ELSE BlockedBothWays' ]_vars

\* The switch was found triggered before any drive, and a raise command has
\* just been refused: the controller is still blocked both ways.
UnknownLimitBlocksUntilClearedWitness ==
    /\ last.op = "command"
    /\ last.cmd = "raise"
    /\ ~last.found.isLifting
    /\ ~last.found.isNudging
    /\ state.lastStopReason = ""
    /\ BlockedBothWays
    /\ BothRelaysOff

\* The pass of loop() being taken reads the ultrasonic sensor: the read
\* interval has elapsed since the last read.
UltrasonicReadNow ==
    TickStep /\ now - lastUltrasonicRead >= ULTRASONIC_READ_INTERVAL

\* C16. Sensor health is debounced: the failure count is the number of failed
\* reads since the last successful one; starting from sensor_healthy = true,
\* the first to fourth consecutive failed reads leave it true and the fifth
\* sets it false; a successful read sets sensor_healthy true, resets the count
\* and stores the distance, and a failed read keeps the last distance; nothing
\* but a read changes the health, the count or the distance.
SensorHealthDebounce ==
    /\ [](state.ultrasonicOk => ultrasonicFailCount < ULTRASONIC_FAIL_THRESHOLD)
    /\ [][ IF UltrasonicReadNow
               THEN IF last'.pulse > 0
                        THEN /\ state'.ultrasonicOk
                             /\ ultrasonicFailCount' = 0
                             /\ state'.distanceCm = readUltrasonic(last'.pulse)
                        ELSE /\ ultrasonicFailCount' = ultrasonicFailCount + 1
                             /\ state'.distanceCm = state.distanceCm
                             /\ state'.ultrasonicOk
                                <=> ( /\ state.ultrasonicOk
                                      /\ ultrasonicFailCount'
                                             < ULTRASONIC_FAIL_THRESHOLD )
           ELSE /\ state'.ultrasonicOk = state.ultrasonicOk
                /\ ultrasonicFailCount' = ultrasonicFailCount
                /\ state'.distanceCm = state.distanceCm ]_vars

\* The fifth failed read in a row after a successful one: the sensor, healthy
\* until this pass of loop(), is now unhealthy and the last distance is kept.
SensorHealthDebounceWitness ==
    /\ last.op = "tick"
    /\ last.pulse = 0
    /\ lastUltrasonicRead = now
    /\ ultrasonicFailCount = ULTRASONIC_FAIL_THRESHOLD
    /\ ~state.ultrasonicOk
    /\ state.distanceCm > 0

\* C17. Timed drive: a pass of loop() that finds a timed drive with elapsed >=
\* the configured lift duration never leaves it driving; unless the limit
\* switch ended the drive earlier in the same pass, it ends Idle with both
\* relays de-energized and stop reason timer; a timed drive is not stopped
\* with reason timer before that, and a pass of loop() that finds a
\* send-to-limit drive never stops it with reason timer: short of the
\* watchdog, a limit trigger or an obstacle below a lowering, the drive goes on.
TimedDriveStopsOnTimer ==
    [][ /\ ( /\ TickStep
             /\ state.isLifting
             /\ ~state.sendToLimit
             /\ now - state.liftStartTime >= config.liftDuration )
           => ( /\ ~state'.isLifting
                /\ ~LimitTriggersNow
                   => ( /\ Idle'
                        /\ BothRelaysOff'
                        /\ ~state'.relayUp /\ ~state'.relayDown
                        /\ state'.lastStopReason = "timer" ) )
        /\ ( /\ TickStep
             /\ state.isLifting
             /\ \/ state.sendToLimit
                \/ now - state.liftStartTime < config.liftDuration )
           => state'.lastStopReason # "timer"
        /\ ( /\ TickStep
             /\ state.isLifting
             /\ state.sendToLimit
             /\ now - state.liftStartTime < MAX_SEND_TO_LIMIT_DURATION
             /\ ~LimitTriggersNow
             /\ ~(state.liftDirection = "lower" /\ ObstacleBelow') )
           => ( /\ state'.isLifting
                /\ state'.sendToLimit
                /\ state'.liftDirection = state.liftDirection
                /\ state'.liftStartTime = state.liftStartTime
                /\ relayUpPin' = relayUpPin
                /\ relayDownPin' = relayDownPin ) ]_vars

\* A pass of loop() has just stopped a timed drive on its timer.
TimedDriveStopsOnTimerWitness ==
    /\ last.op = "tick"
    /\ last.found.isLifting
    /\ ~last.found.sendToLimit
    /\ Idle
    /\ BothRelaysOff
    /\ state.lastStopReason = "timer"

\* The step being taken delivers a calibrate command (over MQTT or the web).
CalibrateStep == CommandStep("calibrate_top") \/ CommandStep("calibrate_bottom")

\* C19. Calibration guard: the calibration endpoints change only in a step
\* that delivers a calibrate command while the actuator is Idle and the sensor
\* is healthy; a calibrate command delivered while a drive is in progress, or
\* while the sensor is unhealthy, leaves both endpoints unchanged.
CalibrationOnlyWhileIdleAndHealthy ==
    [][ /\ ( \/ state'.calibratedTopCm # state.calibratedTopCm
             \/ state'.calibratedBottomCm # state.calibratedBottomCm )
           => (CalibrateStep /\ Idle /\ state.ultrasonicOk)
        /\ (CalibrateStep /\ (state.isLifting \/ ~state.ultrasonicOk))
           => ( /\ state'.calibratedTopCm = state.calibratedTopCm
                /\ state'.calibratedBottomCm = state.calibratedBottomCm ) ]_vars

\* Both endpoints are set and the top is nearer to the sensor than the bottom.
CalibrationValid ==
    /\ state.calibratedTopCm # 0
    /\ state.calibratedBottomCm # 0
    /\ state.calibratedTopCm < state.calibratedBottomCm

\* C18. Calibration round trip: with the sensor healthy, a calibrate top
\* command stores the live distance T as the top endpoint and a calibrate
\* bottom command stores the live distance B as the bottom endpoint, each
\* leaving the other endpoint alone; and whenever the endpoints satisfy
\* T < B and the sensor is healthy, position_percent is 100 at live distance
\* T and 0 at live distance B.
CalibrationRoundTrip ==
    /\ []( (state.ultrasonicOk /\ CalibrationValid)
           => ( /\ state.distanceCm = state.calibratedTopCm
                   => state.positionPercent = 100
                /\ state.distanceCm = state.calibratedBottomCm
                   => state.positionPercent = 0 ) )
    /\ [][ /\ (CommandStep("calibrate_top") /\ state.ultrasonicOk)
              => ( /\ state'.calibratedTopCm = state.distanceCm
                   /\ state'.calibratedBottomCm = state.calibratedBottomCm
                   /\ state'.distanceCm = state.distanceCm )
           /\ (CommandStep("calibrate_bottom") /\ state.ultrasonicOk)
              => ( /\ state'.calibratedBottomCm = state.distanceCm
                   /\ state'.calibratedTopCm = state.calibratedTopCm
                   /\ state'.distanceCm = state.distanceCm ) ]_vars

\* Top calibrated at two echo steps, bottom at three; the sensor has just
\* read the top distance again and the position is 100.
CalibrationRoundTripWitness ==
    /\ last.op = "tick"
    /\ last.pulse = 2 * EchoStep
    /\ state.ultrasonicOk
    /\ state.calibratedTopCm = readUltrasonic(2 * EchoStep)
    /\ state.calibratedBottomCm = readUltrasonic(3 * EchoStep)
    /\ state.distanceCm = state.calibratedTopCm
    /\ state.positionPercent = 100

\* position_percent is the linear interpolation of the distance between the
\* bottom endpoint (0) and the top endpoint (100), clamped to 0..100, within
\* the rounding of the integer conversion.
InterpolatedPosition ==
    LET range == state.calibratedBottomCm - state.calibratedTopCm
        fromBottom == state.calibratedBottomCm - state.distanceCm
        p == state.positionPercent
    IN /\ p \in 0..100
       /\ fromBottom >= range => p = 100
       /\ fromBottom <= 0 => p = 0
       /\ (0 < fromBottom /\ fromBottom < range)
          => ( /\ (p - 1) * range < fromBottom * 100
               /\ fromBottom * 100 < (p + 1) * range )

\* C20 as stated. In every reachable state position_percent is -1 or in
\* 0..100; it is -1 exactly when an endpoint is unset or bottom_cm <= top_cm,
\* and otherwise it is the clamped linear interpolation of the last
\* known-good distance.
PositionUnknownOnlyUncalibrated ==
    /\ state.positionPercent \in {-1} \cup 0..100
    /\ state.positionPercent = -1 <=> ~CalibrationValid
    /\ CalibrationValid => InterpolatedPosition

\* C20 as amended. position_percent is -1 or in 0..100; it is -1 exactly when
\* an endpoint is unset, bottom_cm <= top_cm, or the sensor is unhealthy, and
\* otherwise it is the clamped linear interpolation of the last known-good
\* distance.
PositionEstimate ==
    /\ state.positionPercent \in {-1} \cup 0..100
    /\ state.positionPercent = -1
       <=> (~CalibrationValid \/ ~state.ultrasonicOk)
    /\ (CalibrationValid /\ state.ultrasonicOk) => InterpolatedPosition

\* Top calibrated at one echo step, bottom at four, the live distance at two:
\* two thirds of the way up, 66 percent, after a failed read that kept the
\* distance.
PositionEstimateWitness ==
    /\ last.op = "tick"
    /\ last.pulse = 0
    /\ ultrasonicFailCount > 0
    /\ state.ultrasonicOk
    /\ state.calibratedTopCm = readUltrasonic(EchoStep)
    /\ state.calibratedBottomCm = readUltrasonic(4 * EchoStep)
    /\ state.distanceCm = readUltrasonic(2 * EchoStep)
    /\ state.positionPercent = 66

\* C22. Telemetry on every state change: a step that changes a field of the
\* snapshot (is_lifting, mode, direction, relay_up, relay_down, at_limit,
\* limit_direction, is_nudging, last_stop_reason) ends with the new snapshot
\* published, the start of a nudge and a limit trigger or clear while Idle
\* included.
TelemetryOnEveryChange ==
    [][ Snapshot(state') # Snapshot(state)
        => published' = Snapshot(state') ]_vars

\* C23. Limit-switch debounce: the first pass of loop() that polls the reed
\* pin at a level other than the one the controller holds (a contact bounce
\* seen by a single poll) produces no event: at_limit and limit_direction are
\* unchanged and no nudge starts.
SinglePollBounceIgnored ==
    [][ (TickStep /\ (last'.level = "HIGH") # state.atLimit)
        => ( /\ state'.atLimit = state.atLimit
             /\ state'.limitDirection = state.limitDirection
             /\ ~(~state.isNudging /\ state'.isNudging) ) ]_vars

\* C25. Obstacle protection covers all downward motion: every pass of loop()
\* that ends with the sensor healthy and the distance below
\* MIN_SAFE_DISTANCE_CM ends with the down relay de-energized, also when the
\* downward motion is the automatic nudge off the top limit.
ObstacleStopsAllDownwardMotion ==
    [][ (TickStep /\ ObstacleBelow')
        => ~Energized(relayDownPin') ]_vars

\* C27. Telemetry relay flags mirror the hardware: in every reachable state
\* state.relayUp is true exactly when the up relay pin is energized and
\* state.relayDown exactly when the down relay pin is energized, also while
\* a nudge is running.
RelayFlagsMirrorPins ==
    /\ state.relayUp <=> Energized(relayUpPin)
    /\ state.relayDown <=> Energized(relayDownPin)

\* The step being taken delivers, while a drive is in progress, the start
\* command that started it (same direction, same mode), and it is accepted.
ReissueStep(cmd) ==
    /\ CommandStep(cmd)
    /\ state.isLifting
    /\ state.liftDirection = CommandDirection(cmd)
    /\ state.sendToLimit = CommandToLimit(cmd)
    /\ Permitted(CommandDirection(cmd))

\* C28 as stated. Continuous run time is bounded across re-issued commands:
\* an accepted start command that repeats the drive in progress leaves the
\* relay energized no longer, measured from the first start, than the lift
\* duration or MAX_SEND_TO_LIMIT_DURATION allows: if the drive goes on, its
\* timer still counts from the first start.
ReissueKeepsFirstStart ==
    [][ \A cmd \in StartCommands :
          (ReissueStep(cmd) /\ state'.isLifting)
          => state'.liftStartTime = state.liftStartTime ]_vars

\* C28 as amended. An accepted start command that repeats the drive in
\* progress leaves the same relay energized and restarts the timer at now; a
\* pass of loop() ends a drive whose time since its latest accepted start has
\* reached the lift duration (timed mode) or MAX_SEND_TO_LIMIT_DURATION
\* (send-to-limit mode).
ReissueRestartsTimer ==
    [][ /\ \A cmd \in StartCommands :
             ReissueStep(cmd)
             => ( /\ StartsDriving(CommandDirection(cmd), CommandToLimit(cmd))
                  /\ IF CommandDirection(cmd) = "raise"
                         THEN Energized(relayUpPin)
                     ELSE Energized(relayDownPin) )
        /\ ( /\ TickStep
             /\ state.isLifting
             /\ now - state.liftStartTime
                    >= IF state.sendToLimit THEN MAX_SEND_TO_LIMIT_DURATION
                       ELSE config.liftDuration )
           => ~state'.isLifting ]_vars

\* A sendToTop command has just been repeated during a send-to-top drive, more
\* than a watchdog period after boot: the drive goes on, timed from now.
ReissueRestartsTimerWitness ==
    /\ last.op = "command"
    /\ last.cmd = "sendToTop"
    /\ last.found.isLifting
    /\ last.found.liftDirection = "raise"
    /\ last.found.sendToLimit
    /\ Driving("raise", TRUE)
    /\ state.liftStartTime = now
    /\ now > BootDelay + MAX_SEND_TO_LIMIT_DURATION
    /\ Energized(relayUpPin)

\* C29. Driving and Nudging are mutually exclusive: with commands and passes
\* of loop() applied atomically, is_lifting and is_nudging are never both
\* true.
DrivingNudgingExclusive == ~(state.isLifting /\ state.isNudging)

\* A pass of loop() has just turned a lowering drive into the nudge up.
DrivingNudgingExclusiveWitness ==
    /\ last.op = "tick"
    /\ last.found.isLifting
    /\ last.found.liftDirection = "lower"
    /\ ~state.isLifting
    /\ state.isNudging
    /\ Energized(relayUpPin)

\* C30. Motor state matches controller state: in every reachable state both
\* relay pins are de-energized whenever the controller is Idle; whenever
\* is_lifting is true, liftDirection is raise or lower and exactly the relay
\* of liftDirection is energized; and the send-to-limit flag is true only
\* while is_lifting is true.
MotorMatchesController ==
    /\ Idle => BothRelaysOff
    /\ state.isLifting
       => ( /\ state.liftDirection \in Directions
            /\ Energized(relayUpPin) <=> state.liftDirection = "raise"
            /\ Energized(relayDownPin) <=> state.liftDirection = "lower" )
    /\ state.sendToLimit => state.isLifting

\* A pass of loop() has just ended a nudge on its timer after a send-to-limit
\* drive: the controller is Idle and both relays are released.
MotorMatchesControllerWitness ==
    /\ last.op = "tick"
    /\ last.found.isNudging
    /\ state.lastStopReason = "limit"
    /\ state.atLimit
    /\ Idle
    /\ ~state.sendToLimit
    /\ BothRelaysOff

\* C24. Configuration floors: after boot and after any live configuration
\* update, whatever was submitted (zero, negative and non-numeric input
\* included), the lift duration in effect is not below 500 ms and the nudge
\* duration in effect is not below 50 ms; the same holds of what is saved to
\* flash.  Inside POST /config the lift duration is unclamped only between
\* its assignment and its floor statement, and likewise the nudge duration.
ConfigurationFloors ==
    /\ task.post # "liftFloor"
       => ~ULess(config.liftDuration, LiftDurationFloor)
    /\ task.post # "nudgeFloor"
       => ~ULess(config.nudgeDuration, NudgeDurationFloor)
    /\ ~ULess(stored.liftDuration, LiftDurationFloor)
    /\ ~ULess(stored.nudgeDuration, NudgeDurationFloor)

\* After a POST /config with a negative lift duration near its floor and a
\* nudge duration below its floor, and the restart: the lift duration is the first eight
\* digits of the wrapped value, the nudge duration its default.
ConfigurationFloorsWitness ==
    /\ last.op = "boot"
    /\ task.post = "idle"
    /\ config.liftDuration = 42949667
    /\ config.nudgeDuration = DEFAULT_NUDGE_DURATION
    /\ stored = config

\* C26. Relay exclusion under interleaving: with the /lift handler, the MQTT
\* handler and the loop pass interleaving between statements, there is no
\* point at which both relay pins are energized.
RelayPinsExclusiveInterleaved ==
    ~(Energized(relayUpPin) /\ Energized(relayDownPin))

\* C21. Commands apply atomically with respect to the control pass: the loop
\* task takes no step while a command handler is between its first and its
\* last statement, and a command handler takes no step while the loop task
\* is inside a pass.
CommandsAtomicWithTick ==
    [][ /\ task'.loop # task.loop
           => (task.web.pc = "idle" /\ task.mqtt.pc = "idle")
        /\ (task'.web # task.web \/ task'.mqtt # task.mqtt)
           => LoopAt("idle") ]_vars

====
